---- MODULE Spec2Model ----
(***************************************************************************)
(* Model of streamlit_app.py: load_react_app() assembles dist/index.html,  *)
(* inlines the CSS / JS files of dist/assets into it by pattern            *)
(* substitution, injects two API keys before </head> and hands the text to *)
(* the host's HTML widget.                                                 *)
(*                                                                         *)
(* Text is modelled character by character: a string is a sequence of      *)
(* one-character strings, so that pattern matching, escaping and           *)
(* replacement are computed on the characters the code sees.               *)
(***************************************************************************)
EXTENDS Integers, Sequences, FiniteSets, TLC

\* ------------------------------------------------------------------------
\* Bounds of the model
\* ------------------------------------------------------------------------
\* Largest number of files in dist/assets.
MaxFiles == 2
\* Number of times the script is run (a page load runs it once).
MaxRuns == 2

\* ------------------------------------------------------------------------
\* Literal text of the program
\* ------------------------------------------------------------------------
INDEX_HTML == <<"i","n","d","e","x",".","h","t","m","l">>
CSS_SUFFIX == <<".","c","s","s">>
JS_SUFFIX == <<".","j","s">>
LINK_OPEN == <<"<","l","i","n","k">>
HREF_ATTR == <<"h","r","e","f","=","\"">>
SCRIPT_OPEN == <<"<","s","c","r","i","p","t">>
SRC_ATTR == <<"s","r","c","=","\"">>
SCRIPT_CLOSE == <<"<","/","s","c","r","i","p","t",">">>
HEAD_CLOSE == <<"<","/","h","e","a","d",">">>
STYLE_BEGIN == <<"<","s","t","y","l","e",">">>
STYLE_END == <<"<","/","s","t","y","l","e",">">>
MODULE_BEGIN == <<"<","s","c","r","i","p","t"," ","t","y","p","e","=","\"","m","o","d","u","l","e","\"",">">>
BUILD_NOT_FOUND == "React build not found. If you are on Render, ensure the build command 'npm run build' completed successfully."
INDEX_NOT_FOUND == "index.html not found in dist folder."
INJECT_1 == <<"\n"," "," "," "," ","<","s","c","r","i","p","t",">","\n"," "," "," "," "," "," "," "," ","w","i","n","d","o","w",".","D","E","E","P","S","E","E","K","_","A","P","I","_","K","E","Y"," ","="," ","\"">>
INJECT_2 == <<"\"",";","\n"," "," "," "," "," "," "," "," ","/","/"," ","N","o","t","e",":"," ","G","e","m","i","n","i"," ","S","D","K"," ","u","s","u","a","l","l","y"," ","r","e","a","d","s"," ","p","r","o","c","e","s","s",".","e","n","v",".","A","P","I","_","K","E","Y"," ","d","i","r","e","c","t","l","y"," ","\n"," "," "," "," "," "," "," "," ","/","/"," ","i","f"," ","c","o","n","f","i","g","u","r","e","d"," ","i","n"," ","y","o","u","r"," ","b","u","n","d","l","e","r"," ","(","V","i","t","e",")",","," ","b","u","t"," ","w","e"," ","i","n","j","e","c","t"," ","f","o","r"," ","s","a","f","e","t","y",".","\n"," "," "," "," "," "," "," "," ","w","i","n","d","o","w",".","A","P","I","_","K","E","Y"," ","="," ","\"">>
INJECT_3 == <<"\"",";","\n"," "," "," "," ","<","/","s","c","r","i","p","t",">","\n"," "," "," "," ">>

\* ------------------------------------------------------------------------
\* Inputs: file names, file contents, entry documents, key values
\* ------------------------------------------------------------------------
APP_CSS == <<"a","p","p",".","c","s","s">>
MYAPP_CSS == <<"m","y","a","p","p",".","c","s","s">>
APP_JS == <<"a","p","p",".","j","s">>
APLUSB_JS == <<"a","+","b",".","j","s">>
Names == {APP_CSS, MYAPP_CSS, APP_JS, APLUSB_JS}

CSS_P == <<"p","{","}">>
CSS_Q == <<"q","{","}">>
JS_F == <<"f","(",")">>
JS_G == <<"g","(",")">>
JS_HEAD == <<"h","=","\"","<","/","h","e","a","d",">","\"">>
CSS_SCRIPT == <<"/","*","<","s","c","r","i","p","t"," ","s","r","c","=","\"","a","p","p",".","j","s","\"",">","<","/","s","c","r","i","p","t",">","*","/">>
ContentsOf(n) ==
    CASE n = APP_CSS -> {CSS_P, CSS_SCRIPT}
      [] n = MYAPP_CSS -> {CSS_Q}
      [] n = APP_JS -> {JS_F, JS_HEAD}
      [] OTHER -> {JS_G}
AllContents == UNION {ContentsOf(n) : n \in Names}

LINK_APP_CSS == <<"<","l","i","n","k"," ","h","r","e","f","=","\"","a","p","p",".","c","s","s","\"",">">>
SCRIPT_APP_JS == <<"<","s","c","r","i","p","t"," ","s","r","c","=","\"","a","p","p",".","j","s","\"",">","<","/","s","c","r","i","p","t",">">>
LINK_MYAPP_CSS == <<"<","l","i","n","k"," ","h","r","e","f","=","\"","m","y","a","p","p",".","c","s","s","\"",">">>
LINK_UPPER_APP_CSS == <<"<","L","I","N","K"," ","r","e","l","=","\"","x","\""," ","h","r","e","f","=","\"","/","a","p","p",".","c","s","s","\"",">">>
LINK_APPXCSS == <<"<","l","i","n","k"," ","h","r","e","f","=","\"","a","p","p","X","c","s","s","\"",">">>
SCRIPT_APPXJS == <<"<","s","c","r","i","p","t"," ","s","r","c","=","\"","a","p","p","X","j","s","\"",">","<","/","s","c","r","i","p","t",">">>
SCRIPT_APLUSB_JS == <<"<","s","c","r","i","p","t"," ","s","r","c","=","\"","a","+","b",".","j","s","\"",">","<","/","s","c","r","i","p","t",">">>
LINK_VITE_APP_CSS == <<"<","l","i","n","k"," ","r","e","l","=","\"","s","t","y","l","e","s","h","e","e","t","\""," ","h","r","e","f","=","\"","/","a","s","s","e","t","s","/","a","p","p",".","c","s","s","\"",">">>
SCRIPT_VITE_APP_JS == <<"<","s","c","r","i","p","t"," ","t","y","p","e","=","\"","m","o","d","u","l","e","\""," ","c","r","o","s","s","o","r","i","g","i","n"," ","s","r","c","=","\"","/","a","s","s","e","t","s","/","a","p","p",".","j","s","\"",">","<","/","s","c","r","i","p","t",">">>
HEAD_OPEN == <<"<","h","e","a","d",">">>

ENTRY_MINIMAL == HEAD_OPEN \o LINK_APP_CSS \o SCRIPT_APP_JS \o HEAD_CLOSE
ENTRY_TWO_CSS == HEAD_OPEN \o LINK_MYAPP_CSS \o LINK_UPPER_APP_CSS \o HEAD_CLOSE
ENTRY_SPECIAL == HEAD_OPEN \o LINK_APPXCSS \o SCRIPT_APPXJS \o SCRIPT_APLUSB_JS \o HEAD_CLOSE
ENTRY_NO_HEAD == LINK_APP_CSS \o SCRIPT_APP_JS
ENTRY_VITE == HEAD_OPEN \o SCRIPT_VITE_APP_JS \o LINK_VITE_APP_CSS \o HEAD_CLOSE
EntryDocs == {ENTRY_MINIMAL, ENTRY_TWO_CSS, ENTRY_SPECIAL, ENTRY_NO_HEAD, ENTRY_VITE}

Keys == {"API_KEY", "DEEPSEEK_API_KEY"}
KEY_ABC == <<"a","b","c">>
KEY_XYZ == <<"x","y","z">>
EnvValues == {<<>>, KEY_ABC}
SecretValues == {KEY_XYZ}

\* ------------------------------------------------------------------------
\* Text helpers
\* ------------------------------------------------------------------------
Max(S) == CHOOSE x \in S : \A y \in S : y <= x
Min(S) == CHOOSE x \in S : \A y \in S : x <= y

UpperToLower ==
    [c \in {"A","B","C","D","E","F","G","H","I","J","K","L","M","N","O","P","Q","R","S","T","U","V","W","X","Y","Z"} |->
        CASE c = "A" -> "a" [] c = "B" -> "b" [] c = "C" -> "c" [] c = "D" -> "d"
          [] c = "E" -> "e" [] c = "F" -> "f" [] c = "G" -> "g" [] c = "H" -> "h"
          [] c = "I" -> "i" [] c = "J" -> "j" [] c = "K" -> "k" [] c = "L" -> "l"
          [] c = "M" -> "m" [] c = "N" -> "n" [] c = "O" -> "o" [] c = "P" -> "p"
          [] c = "Q" -> "q" [] c = "R" -> "r" [] c = "S" -> "s" [] c = "T" -> "t"
          [] c = "U" -> "u" [] c = "V" -> "v" [] c = "W" -> "w" [] c = "X" -> "x"
          [] c = "Y" -> "y" [] OTHER -> "z"]

\* re.IGNORECASE: two characters match when they are equal up to letter case.
Lower(c) == IF c \in DOMAIN UpperToLower THEN UpperToLower[c] ELSE c
EqIgnoreCase(a, b) == Lower(a) = Lower(b)

\* str.endswith
endswith(f, suffix) ==
    /\ Len(f) >= Len(suffix)
    /\ SubSeq(f, Len(f) - Len(suffix) + 1, Len(f)) = suffix

\* The text `sub` occurs at position pos of s (exact, as str.replace compares).
ExactAt(s, pos, sub) ==
    /\ pos >= 1
    /\ pos + Len(sub) - 1 <= Len(s)
    /\ \A k \in 1..Len(sub) : s[pos + k - 1] = sub[k]

\* `sub in s`
Contains(s, sub) == \E pos \in 1..(Len(s) - Len(sub) + 1) : ExactAt(s, pos, sub)

\* Number of positions of s at which sub occurs.
Occurrences(s, sub) == Cardinality({pos \in 1..(Len(s) - Len(sub) + 1) : ExactAt(s, pos, sub)})

\* ------------------------------------------------------------------------
\* Regular expressions of the inlining steps
\* ------------------------------------------------------------------------
\* Characters re.escape puts a backslash before.
SpecialChars == {"(", ")", "[", "]", "{", "}", "?", "*", "+", "-", "|", "^", "$", "\\", ".", "&", "~", "#", " ", "\t", "\n", "\r", "\f"}

\* A faulty re_escape: the file name goes into the pattern as it is.
NoEscape(name) == name

RECURSIVE re_escape(_)
\* re.escape(name)
re_escape(name) ==
    IF name = <<>> THEN <<>>
    ELSE (IF Head(name) \in SpecialChars THEN <<"\\", Head(name)>> ELSE <<Head(name)>>)
         \o re_escape(Tail(name))

\* One position of a compiled pattern: a literal character or `.`.
Lit(c) == [any |-> FALSE, ch |-> c]
AnyChar == [any |-> TRUE, ch |-> "."]

RECURSIVE ParseAtoms(_)
\* re.compile on the file-name part of the pattern: a backslash makes the
\* next character literal, a bare `.` matches any character but a newline.
ParseAtoms(p) ==
    IF p = <<>> THEN <<>>
    ELSE IF Head(p) = "\\" /\ Len(p) >= 2
         THEN <<Lit(p[2])>> \o ParseAtoms(SubSeq(p, 3, Len(p)))
    ELSE IF Head(p) = "."
         THEN <<AnyChar>> \o ParseAtoms(Tail(p))
    ELSE <<Lit(Head(p))>> \o ParseAtoms(Tail(p))

\* A literal of the pattern occurs at pos, compared ignoring case.
LitAt(s, pos, lit) ==
    /\ pos + Len(lit) - 1 <= Len(s)
    /\ \A k \in 1..Len(lit) : EqIgnoreCase(s[pos + k - 1], lit[k])

AtomsAt(s, pos, atoms) ==
    /\ pos + Len(atoms) - 1 <= Len(s)
    /\ \A k \in 1..Len(atoms) :
          IF atoms[k].any THEN s[pos + k - 1] # "\n"
          ELSE EqIgnoreCase(s[pos + k - 1], atoms[k].ch)

\* Index of the first c at or after pos, Len(s) + 1 when there is none.
FirstChar(s, pos, c) ==
    LET S == {k \in pos..Len(s) : s[k] = c}
    IN  IF S = {} THEN Len(s) + 1 ELSE Min(S)

\* Index of the first occurrence of the literal at or after pos, 0 when none.
FirstLit(s, pos, lit) ==
    LET S == {k \in pos..Len(s) : LitAt(s, k, lit)}
    IN  IF S = {} THEN 0 ELSE Min(S)

\* re.compile(f'<link[^>]+href="[^"]*{re.escape(css_file)}"[^>]*>', re.IGNORECASE)
CssPattern(css_file) ==
    [open |-> LINK_OPEN, attr |-> HREF_ATTR,
     file |-> ParseAtoms(re_escape(css_file)), close |-> <<>>]

\* re.compile(f'<script[^>]+src="[^"]*{re.escape(js_file)}"[^>]*>[\s\S]*?</script>', re.IGNORECASE)
JsPattern(js_file) ==
    [open |-> SCRIPT_OPEN, attr |-> SRC_ATTR,
     file |-> ParseAtoms(re_escape(js_file)), close |-> SCRIPT_CLOSE]

\* The match of
\*     open [^>]+ attr [^"]* file " [^>]* > ( [\s\S]*? close )?
\* that starts at position i of s: the index of its last character, 0 when
\* the pattern does not match at i.  The greedy [^>]+ and [^"]* give up
\* characters one at a time, so the match found is the one with the latest
\* attr and then the latest file; the lazy [\s\S]*? stops at the first close.
MatchEnd(s, i, pat) ==
    IF ~LitAt(s, i, pat.open) THEN 0
    ELSE
    LET j0 == i + Len(pat.open)
        g  == FirstChar(s, j0, ">")
        n  == Len(pat.file)
        TailEnd(p) ==
            LET gt == FirstChar(s, p, ">")
            IN  IF gt > Len(s) THEN 0
                ELSE IF pat.close = <<>> THEN gt
                ELSE LET c == FirstLit(s, gt + 1, pat.close)
                     IN  IF c = 0 THEN 0 ELSE c + Len(pat.close) - 1
        Es(h) ==
            LET a == h + Len(pat.attr)
                q == FirstChar(s, a, "\"")
            IN  {e \in a..q : /\ AtomsAt(s, e, pat.file)
                              /\ e + n <= Len(s)
                              /\ s[e + n] = "\""
                              /\ TailEnd(e + n + 1) # 0}
        Hs == {h \in (j0 + 1)..g : LitAt(s, h, pat.attr) /\ Es(h) # {}}
    IN  IF Hs = {} THEN 0
        ELSE LET h == Max(Hs)
                 e == Max(Es(h))
             IN  TailEnd(e + n + 1)

\* The pattern matches somewhere in s.
Matches(s, pat) == \E i \in 1..Len(s) : MatchEnd(s, i, pat) # 0

RECURSIVE SubFrom(_, _, _, _)
\* The scan of pattern.sub from position pos: the text up to the leftmost
\* match is kept, the match is replaced, the scan goes on after the match.
SubFrom(s, pos, pat, repl) ==
    LET starts == {k \in pos..Len(s) : MatchEnd(s, k, pat) # 0}
    IN  IF starts = {} THEN SubSeq(s, pos, Len(s))
        ELSE LET k == Min(starts)
             IN  SubSeq(s, pos, k - 1) \o repl \o SubFrom(s, MatchEnd(s, k, pat) + 1, pat, repl)

\* A faulty Sub: when nothing matches, the replacement is added at the end.
SubOrAppend(s, pat, repl) ==
    IF \E k \in 1..Len(s) : MatchEnd(s, k, pat) # 0 THEN SubFrom(s, 1, pat, repl)
    ELSE s \o repl

\* pattern.sub(lambda m: repl, s): every non-overlapping match, left to right.
Sub(s, pat, repl) == SubFrom(s, 1, pat, repl)

RECURSIVE ReplaceFrom(_, _, _, _)
\* The scan of str.replace from position pos.
ReplaceFrom(s, pos, old, new) ==
    LET starts == {k \in pos..(Len(s) - Len(old) + 1) : ExactAt(s, k, old)}
    IN  IF starts = {} THEN SubSeq(s, pos, Len(s))
        ELSE LET k == Min(starts)
             IN  SubSeq(s, pos, k - 1) \o new \o ReplaceFrom(s, k + Len(old), old, new)

\* s.replace(old, new): every non-overlapping occurrence, left to right.
Replace(s, old, new) == ReplaceFrom(s, 1, old, new)

\* ------------------------------------------------------------------------
\* State
\* ------------------------------------------------------------------------
VARIABLES
    dirs,          \* the directories that exist: "dist", "dist/assets"
    dist,          \* files of dist: name |-> contents
    assets,        \* files of dist/assets: name |-> contents
    env,           \* os.environ: key |-> value, for the keys that are set
    secrets,       \* st.secrets: key |-> value, for the keys it holds
    pc,            \* the statement load_react_app() is at
    html_content,  \* local html_content
    css_files,     \* local css_files
    js_files,      \* local js_files
    i,             \* position of the running for loop in its list
    keys,          \* locals gemini_key / deepseek_key once assigned, by key name
    errors,        \* messages passed to st.error() by this run
    rendered,      \* documents passed to st.components.v1.html() by this run
    reads,         \* names of the files this run has opened
    run,           \* number of the current run of the script
    lastRendered   \* `rendered` of the previous run

vars == <<dirs, dist, assets, env, secrets, pc, html_content, css_files, js_files,
          i, keys, errors, rendered, reads, run, lastRendered>>

disk == <<dirs, dist, assets, env, secrets>>

\* os.path.exists
build_dir_exists == "dist" \in dirs
index_path_exists == INDEX_HTML \in DOMAIN dist
assets_dir_exists == "dist/assets" \in dirs

\* The directories dist/assets can be: at most MaxFiles files.
AssetDirs ==
    UNION { {d \in [S -> AllContents] : \A n \in S : d[n] \in ContentsOf(n)} :
            S \in {T \in SUBSET Names : Cardinality(T) <= MaxFiles} }
Envs == UNION { [S -> EnvValues] : S \in SUBSET Keys }
SecretStores == UNION { [S -> SecretValues] : S \in SUBSET Keys }

\* Every listing order os.listdir may yield for the directory.
Listings(d) ==
    LET n == Cardinality(DOMAIN d)
    IN  {l \in [1..n -> DOMAIN d] : \A a, b \in 1..n : l[a] = l[b] => a = b}

Init ==
    /\ dirs \in {{}, {"dist"}, {"dist", "dist/assets"}}
    /\ dist \in IF "dist" \in dirs
                THEN {<<>>} \cup {[f \in {INDEX_HTML} |-> h] : h \in EntryDocs}
                ELSE {<<>>}
    /\ assets \in IF "dist/assets" \in dirs THEN AssetDirs ELSE {<<>>}
    /\ env \in Envs
    /\ secrets \in SecretStores
    /\ pc = "check_build"
    /\ html_content = <<>>
    /\ css_files = <<>>
    /\ js_files = <<>>
    /\ i = 0
    /\ keys = <<>>
    /\ errors = <<>>
    /\ rendered = <<>>
    /\ reads = {}
    /\ run = 1
    /\ lastRendered = <<>>

\* ------------------------------------------------------------------------
\* load_react_app(), statement by statement
\* ------------------------------------------------------------------------
\* A faulty CheckBuildDir: the message is reported but the run goes on.
BuildDirUnchecked ==
    /\ pc = "check_build"
    /\ pc' = "check_index"
    /\ errors' = IF build_dir_exists THEN errors ELSE Append(errors, BUILD_NOT_FOUND)
    /\ UNCHANGED <<disk, html_content, css_files, js_files, i, keys, rendered, reads,
                   run, lastRendered>>

\* if not os.path.exists(build_dir): st.error(...); return
CheckBuildDir ==
    /\ pc = "check_build"
    /\ IF build_dir_exists
       THEN pc' = "check_index" /\ errors' = errors
       ELSE pc' = "done" /\ errors' = Append(errors, BUILD_NOT_FOUND)
    /\ UNCHANGED <<disk, html_content, css_files, js_files, i, keys, rendered, reads,
                   run, lastRendered>>

\* A faulty CheckIndex: the message is reported but the run goes on.
IndexUnchecked ==
    /\ pc = "check_index"
    /\ IF index_path_exists
       THEN pc' = "read_index" /\ errors' = errors
       ELSE pc' = "check_assets" /\ errors' = Append(errors, INDEX_NOT_FOUND)
    /\ UNCHANGED <<disk, html_content, css_files, js_files, i, keys, rendered, reads,
                   run, lastRendered>>

\* if not os.path.exists(index_path): st.error(...); return
CheckIndex ==
    /\ pc = "check_index"
    /\ IF index_path_exists
       THEN pc' = "read_index" /\ errors' = errors
       ELSE pc' = "done" /\ errors' = Append(errors, INDEX_NOT_FOUND)
    /\ UNCHANGED <<disk, html_content, css_files, js_files, i, keys, rendered, reads,
                   run, lastRendered>>

\* with open(index_path) as f: html_content = f.read()
ReadIndex ==
    /\ pc = "read_index"
    /\ html_content' = dist[INDEX_HTML]
    /\ reads' = reads \cup {INDEX_HTML}
    /\ pc' = "check_assets"
    /\ UNCHANGED <<disk, css_files, js_files, i, keys, errors, rendered, run, lastRendered>>

\* if os.path.exists(assets_dir):
CheckAssets ==
    /\ pc = "check_assets"
    /\ pc' = IF assets_dir_exists THEN "list_css" ELSE "resolve_keys"
    /\ UNCHANGED <<disk, html_content, css_files, js_files, i, keys, errors, rendered,
                   reads, run, lastRendered>>

\* css_files = [f for f in os.listdir(assets_dir) if f.endswith(".css")]
ListCss ==
    /\ pc = "list_css"
    /\ \E l \in Listings(assets) :
          css_files' = SelectSeq(l, LAMBDA f : endswith(f, CSS_SUFFIX))
    /\ i' = 1
    /\ pc' = IF css_files' = <<>> THEN "list_js" ELSE "css_loop"
    /\ UNCHANGED <<disk, html_content, js_files, keys, errors, rendered, reads, run,
                   lastRendered>>

\* One pass of `for css_file in css_files`: read the file, replace the tags.
InlineCss ==
    /\ pc = "css_loop"
    /\ LET css_file == css_files[i]
           css_content == assets[css_file]
           pattern == CssPattern(css_file)
       IN  /\ html_content' = Sub(html_content, pattern, STYLE_BEGIN \o css_content \o STYLE_END)
           /\ reads' = reads \cup {css_file}
    /\ i' = i + 1
    /\ pc' = IF i = Len(css_files) THEN "list_js" ELSE "css_loop"
    /\ UNCHANGED <<disk, css_files, js_files, keys, errors, rendered, run, lastRendered>>

\* js_files = [f for f in os.listdir(assets_dir) if f.endswith(".js")]
ListJs ==
    /\ pc = "list_js"
    /\ \E l \in Listings(assets) :
          js_files' = SelectSeq(l, LAMBDA f : endswith(f, JS_SUFFIX))
    /\ i' = 1
    /\ pc' = IF js_files' = <<>> THEN "resolve_keys" ELSE "js_loop"
    /\ UNCHANGED <<disk, html_content, css_files, keys, errors, rendered, reads, run,
                   lastRendered>>

\* One pass of `for js_file in js_files`: read the file, replace the tags.
InlineJs ==
    /\ pc = "js_loop"
    /\ LET js_file == js_files[i]
           js_content == assets[js_file]
           pattern == JsPattern(js_file)
       IN  /\ html_content' = Sub(html_content, pattern, MODULE_BEGIN \o js_content \o SCRIPT_CLOSE)
           /\ reads' = reads \cup {js_file}
    /\ i' = i + 1
    /\ pc' = IF i = Len(js_files) THEN "resolve_keys" ELSE "js_loop"
    /\ UNCHANGED <<disk, css_files, js_files, keys, errors, rendered, run, lastRendered>>

\* A faulty ResolveKey: the secrets store is asked first.
SecretsFirst(k) ==
    IF k \in DOMAIN secrets /\ secrets[k] # <<>> THEN secrets[k]
    ELSE IF k \in DOMAIN env THEN env[k]
    ELSE <<>>

\* os.environ.get(k) or st.secrets.get(k, ""): None and "" are both false.
ResolveKey(k) ==
    IF k \in DOMAIN env /\ env[k] # <<>> THEN env[k]
    ELSE IF k \in DOMAIN secrets THEN secrets[k]
    ELSE <<>>

\* gemini_key = ...; deepseek_key = ...
ResolveKeys ==
    /\ pc = "resolve_keys"
    /\ keys' = [k \in Keys |-> ResolveKey(k)]
    /\ pc' = "inject"
    /\ UNCHANGED <<disk, html_content, css_files, js_files, i, errors, rendered, reads,
                   run, lastRendered>>

\* A faulty injection_script: each value is written to the other global.
SwappedScript(deepseek_key, gemini_key) ==
    INJECT_1 \o gemini_key \o INJECT_2 \o deepseek_key \o INJECT_3

\* injection_script = f"""..."""
injection_script(deepseek_key, gemini_key) ==
    INJECT_1 \o deepseek_key \o INJECT_2 \o gemini_key \o INJECT_3

\* html_content = html_content.replace("</head>", f"{injection_script}</head>")
InjectKeys ==
    /\ pc = "inject"
    /\ html_content' =
          Replace(html_content, HEAD_CLOSE,
                  injection_script(keys["DEEPSEEK_API_KEY"], keys["API_KEY"]) \o HEAD_CLOSE)
    /\ pc' = "render"
    /\ UNCHANGED <<disk, css_files, js_files, i, keys, errors, rendered, reads, run,
                   lastRendered>>

\* st.components.v1.html(html_content, height=1000, scrolling=True)
Render ==
    /\ pc = "render"
    /\ rendered' = Append(rendered, html_content)
    /\ pc' = "done"
    /\ UNCHANGED <<disk, html_content, css_files, js_files, i, keys, errors, reads, run,
                   lastRendered>>

\* The host runs the script again (a page load): load_react_app() starts
\* afresh over the same files, environment and secrets.
Rerun ==
    /\ pc = "done"
    /\ run < MaxRuns
    /\ run' = run + 1
    /\ lastRendered' = rendered
    /\ pc' = "check_build"
    /\ html_content' = <<>>
    /\ css_files' = <<>>
    /\ js_files' = <<>>
    /\ i' = 0
    /\ keys' = <<>>
    /\ errors' = <<>>
    /\ rendered' = <<>>
    /\ reads' = {}
    /\ UNCHANGED disk

Next ==
    \/ CheckBuildDir
    \/ CheckIndex
    \/ ReadIndex
    \/ CheckAssets
    \/ ListCss
    \/ InlineCss
    \/ ListJs
    \/ InlineJs
    \/ ResolveKeys
    \/ InjectKeys
    \/ Render
    \/ Rerun

Spec == Init /\ [][Next]_vars

\* ------------------------------------------------------------------------
\* Properties
\* ------------------------------------------------------------------------
\* The run has ended with one rendering call.
RenderedOnce == pc = "done" /\ Len(rendered) = 1

\* The tags of the entry documents and the file name each one references.
TagRefs ==
    {[tag |-> LINK_APP_CSS, ref |-> APP_CSS], [tag |-> LINK_MYAPP_CSS, ref |-> MYAPP_CSS],
     [tag |-> LINK_UPPER_APP_CSS, ref |-> APP_CSS], [tag |-> LINK_APPXCSS, ref |-> <<"a","p","p","X","c","s","s">>],
     [tag |-> SCRIPT_APP_JS, ref |-> APP_JS], [tag |-> SCRIPT_APPXJS, ref |-> <<"a","p","p","X","j","s">>],
     [tag |-> SCRIPT_APLUSB_JS, ref |-> APLUSB_JS],
     [tag |-> LINK_VITE_APP_CSS, ref |-> APP_CSS], [tag |-> SCRIPT_VITE_APP_JS, ref |-> APP_JS]}

\* The inline block that carries the contents of asset file f.
InlineBlock(f) ==
    IF endswith(f, CSS_SUFFIX) THEN STYLE_BEGIN \o assets[f] \o STYLE_END
    ELSE MODULE_BEGIN \o assets[f] \o SCRIPT_CLOSE

\* C1: when the build directory dist does not exist, the run reports the
\* "React build not found" message and returns: it never leaves the check,
\* makes no rendering call, opens no file and resolves no key.
C1_BuildDirMissing ==
    ~build_dir_exists =>
        /\ pc \in {"check_build", "done"}
        /\ errors = IF pc = "done" THEN <<BUILD_NOT_FOUND>> ELSE <<>>
        /\ rendered = <<>>
        /\ reads = {}
        /\ keys = <<>>

C1_Witness == pc = "done" /\ ~build_dir_exists /\ errors = <<BUILD_NOT_FOUND>>

\* C2: when dist exists but dist/index.html does not, the run reports the
\* "index.html not found" message and not the build-not-found one, returns,
\* and makes no rendering call, whatever dist/assets holds.
C2_IndexMissing ==
    (build_dir_exists /\ ~index_path_exists) =>
        /\ pc \in {"check_build", "check_index", "done"}
        /\ errors = IF pc = "done" THEN <<INDEX_NOT_FOUND>> ELSE <<>>
        /\ rendered = <<>>

C2_Witness ==
    /\ pc = "done" /\ build_dir_exists /\ ~index_path_exists
    /\ APP_CSS \in DOMAIN assets
    /\ errors = <<INDEX_NOT_FOUND>>

\* C3 (as claimed): for the entry document with one link tag for app.css and
\* one script tag for app.js, and asset files app.css and app.js of any
\* contents, the rendered document contains neither tag nor either file name
\* and contains the CSS text inside <style> and the JS text inside
\* <script type="module">.
C3_MinimalEntryInlined ==
    (/\ RenderedOnce
     /\ dist[INDEX_HTML] = ENTRY_MINIMAL
     /\ {APP_CSS, APP_JS} \subseteq DOMAIN assets) =>
        /\ ~Contains(rendered[1], LINK_APP_CSS)
        /\ ~Contains(rendered[1], SCRIPT_APP_JS)
        /\ ~Contains(rendered[1], APP_CSS)
        /\ ~Contains(rendered[1], APP_JS)
        /\ Contains(rendered[1], STYLE_BEGIN \o assets[APP_CSS] \o STYLE_END)
        /\ Contains(rendered[1], MODULE_BEGIN \o assets[APP_JS] \o SCRIPT_CLOSE)

\* The script block for API_KEY = "abc" and DEEPSEEK_API_KEY = "".
BLOCK_ABC_EMPTY == <<"\n"," "," "," "," ","<","s","c","r","i","p","t",">","\n"," "," "," "," "," "," "," "," ","w","i","n","d","o","w",".","D","E","E","P","S","E","E","K","_","A","P","I","_","K","E","Y"," ","="," ","\"","\"",";","\n"," "," "," "," "," "," "," "," ","/","/"," ","N","o","t","e",":"," ","G","e","m","i","n","i"," ","S","D","K"," ","u","s","u","a","l","l","y"," ","r","e","a","d","s"," ","p","r","o","c","e","s","s",".","e","n","v",".","A","P","I","_","K","E","Y"," ","d","i","r","e","c","t","l","y"," ","\n"," "," "," "," "," "," "," "," ","/","/"," ","i","f"," ","c","o","n","f","i","g","u","r","e","d"," ","i","n"," ","y","o","u","r"," ","b","u","n","d","l","e","r"," ","(","V","i","t","e",")",","," ","b","u","t"," ","w","e"," ","i","n","j","e","c","t"," ","f","o","r"," ","s","a","f","e","t","y",".","\n"," "," "," "," "," "," "," "," ","w","i","n","d","o","w",".","A","P","I","_","K","E","Y"," ","="," ","\"","a","b","c","\"",";","\n"," "," "," "," ","<","/","s","c","r","i","p","t",">","\n"," "," "," "," ">>

EnvAbcEmpty ==
    /\ DOMAIN env = Keys
    /\ env["API_KEY"] = KEY_ABC
    /\ env["DEEPSEEK_API_KEY"] = <<>>

\* Every </head> of the text is immediately preceded by the block.
BlockBeforeEveryHead(s, block) ==
    \A pos \in 1..Len(s) :
        ExactAt(s, pos, HEAD_CLOSE) => ExactAt(s, pos - Len(block), block)

\* C4 (as claimed): with API_KEY="abc" and DEEPSEEK_API_KEY="" in the
\* environment, the rendered document has the script block that sets API_KEY
\* to "abc" and DEEPSEEK_API_KEY to "" immediately before the closing head tag.
C4_EnvKeysInjected ==
    (/\ RenderedOnce
     /\ EnvAbcEmpty
     /\ Contains(dist[INDEX_HTML], HEAD_CLOSE)) =>
        /\ Contains(rendered[1], BLOCK_ABC_EMPTY \o HEAD_CLOSE)
        /\ BlockBeforeEveryHead(rendered[1], BLOCK_ABC_EMPTY)

\* C4 (amended): the same, provided the secrets store supplies no non-empty
\* DEEPSEEK_API_KEY.
C4_EnvKeysInjectedNoSecret ==
    (/\ RenderedOnce
     /\ EnvAbcEmpty
     /\ ("DEEPSEEK_API_KEY" \in DOMAIN secrets => secrets["DEEPSEEK_API_KEY"] = <<>>)
     /\ Contains(dist[INDEX_HTML], HEAD_CLOSE)) =>
        /\ Contains(rendered[1], BLOCK_ABC_EMPTY \o HEAD_CLOSE)
        /\ BlockBeforeEveryHead(rendered[1], BLOCK_ABC_EMPTY)

C4_Witness ==
    /\ RenderedOnce
    /\ EnvAbcEmpty
    /\ DOMAIN secrets = {"API_KEY"}
    /\ Contains(rendered[1], BLOCK_ABC_EMPTY \o HEAD_CLOSE)

\* C5 (as claimed): each key is the environment's value whenever the
\* environment has the key, the secrets store's value only when the
\* environment does not have it, and empty when neither has it.
C5_EnvAlwaysWins ==
    keys # <<>> =>
        \A k \in Keys :
            /\ k \in DOMAIN env => keys[k] = env[k]
            /\ (k \notin DOMAIN env /\ k \in DOMAIN secrets) => keys[k] = secrets[k]
            /\ (k \notin DOMAIN env /\ k \notin DOMAIN secrets) => keys[k] = <<>>

\* The environment has a non-empty value for k.
EnvSupplies(k) == k \in DOMAIN env /\ env[k] # <<>>

\* C5 (amended): each key is the environment's value whenever that value is
\* non-empty, the secrets store's value when the environment has no value or
\* an empty one, and empty when neither supplies it; a key's value depends on
\* no other key.
C5_NonEmptyEnvWins ==
    keys # <<>> =>
        \A k \in Keys :
            /\ EnvSupplies(k) => keys[k] = env[k]
            /\ (~EnvSupplies(k) /\ k \in DOMAIN secrets) => keys[k] = secrets[k]
            /\ (~EnvSupplies(k) /\ k \notin DOMAIN secrets) => keys[k] = <<>>

C5_Witness ==
    /\ keys # <<>>
    /\ "DEEPSEEK_API_KEY" \in DOMAIN env /\ env["DEEPSEEK_API_KEY"] = <<>>
    /\ keys["DEEPSEEK_API_KEY"] = KEY_XYZ
    /\ "API_KEY" \in DOMAIN secrets
    /\ keys["API_KEY"] = KEY_ABC

\* C6 (as claimed): the inlining step of asset file F replaces a tag that
\* references an asset file with F's contents if and only if the file the
\* tag references is F.
C6_ReplacedIffReferenced ==
    [][\A t \in TagRefs :
          (/\ pc = "css_loop" \/ pc = "js_loop"
           /\ t.ref \in DOMAIN assets
           /\ Contains(html_content, t.tag)) =>
              LET F == IF pc = "css_loop" THEN css_files[i] ELSE js_files[i]
              IN  Contains(html_content', t.tag) <=> t.ref # F]_vars

\* C7 (as claimed): two runs over the same files, environment and secrets
\* pass the same document to the renderer, whatever order the directory
\* listings yield.
C7_SameOutputEveryRun ==
    (run > 1 /\ pc = "done") => rendered = lastRendered

\* C8: the inlining step of an asset file whose name has special characters
\* (app.css, a+b.js) replaces the tag that references that literal name by
\* the file's inline block, and no inlining step touches a tag whose name
\* differs from a file name only where the file name has a special
\* character (appXcss, appXjs).
C8_LiteralFileName ==
    [][(pc = "css_loop" \/ pc = "js_loop") =>
          LET F == IF pc = "css_loop" THEN css_files[i] ELSE js_files[i]
          IN  /\ \A t \in {r \in TagRefs : r.tag \in {LINK_APPXCSS, SCRIPT_APPXJS}} :
                    Contains(html_content, t.tag) => Contains(html_content', t.tag)
              /\ \A t \in {r \in TagRefs : r.tag \in {LINK_APP_CSS, SCRIPT_APLUSB_JS}} :
                    (t.ref = F /\ Contains(html_content, t.tag)) =>
                        /\ ~Contains(html_content', t.tag)
                        /\ Contains(html_content', InlineBlock(F))]_vars

C8_Witness ==
    /\ RenderedOnce
    /\ dist[INDEX_HTML] = ENTRY_SPECIAL
    /\ reads = {INDEX_HTML, APP_CSS, APLUSB_JS}
    /\ Contains(rendered[1], LINK_APPXCSS)
    /\ Contains(rendered[1], InlineBlock(APLUSB_JS))

C10_OneBlockRawContents ==
    (RenderedOnce /\ Occurrences(dist[INDEX_HTML], HEAD_CLOSE) = 1) =>
        /\ Occurrences(rendered[1],
                       injection_script(keys["DEEPSEEK_API_KEY"], keys["API_KEY"])) = 1
        /\ \A t \in TagRefs :
              (Contains(dist[INDEX_HTML], t.tag) /\ t.ref \in DOMAIN assets) =>
                  Contains(rendered[1], assets[t.ref])
====
